---- MODULE Spec2Model ----
(***************************************************************************)
(* Model of approx_fabia_cm_f and approx_estimateZ (src/fabia_approx.c).   *)
(*                                                                         *)
(* Numbers.  The code computes in IEEE single precision.  The model        *)
(* computes on a fixed-point grid: the integer a stands for the real       *)
(* a/SCALE.  Addition and subtraction are exact; a product, a quotient, a  *)
(* square root and a power are rounded toward zero to the grid, and        *)
(* saturate at +-MAXV the way a float saturates at +-inf.  MACHINE_EPS,    *)
(* which in the code is the spacing of floats at 1.0, is the spacing of    *)
(* the grid.  The exponents spl and spz are counted in halves (0, 1, 2     *)
(* stand for 0, 0.5, 1.0) so that pow(x, -sp) is 1, 1/sqrt(x) or 1/x.      *)
(*                                                                         *)
(* Arrays are functions on 0..len-1 and are indexed with the code's own    *)
(* column-major index arithmetic.                                          *)
(***************************************************************************)
EXTENDS Integers, Sequences, FiniteSets, TLC

\* ---------------------------------------------------------------- bounds
SCALE == 64
MaxCyc == 2
MaxThreads == 2

\* dimensions of the call: k factors, n features, l samples
k == 2
n == 2
l == 2

ONE == SCALE
MAXV == 512 * SCALE
MACHINE_EPS == 1
non_negative == 0

\* ------------------------------------------------------------ arithmetic
Abs(a) == IF a < 0 THEN -a ELSE a
Sgn(a) == IF a > 0 THEN 1 ELSE IF a < 0 THEN -1 ELSE 0
Clamp(a) == IF a > MAXV THEN MAXV ELSE IF a < -MAXV THEN -MAXV ELSE a

\* float product a*b
Mul(a, b) == Sgn(a) * Sgn(b) * Clamp((Abs(Clamp(a)) * Abs(Clamp(b))) \div SCALE)

\* float quotient a/b; x/0 is +-inf
Div(a, b) ==
    IF b = 0 THEN Sgn(a) * MAXV
    ELSE Sgn(a) * Sgn(b) * Clamp((Abs(Clamp(a)) * SCALE) \div Abs(b))

\* float quotient a/m for an int m (XX[i2] /= l, s/l, s/n)
DivInt(a, m) == Sgn(a) * (Abs(a) \div m)

RECURSIVE ISqrt(_, _, _)
ISqrt(v, lo, hi) ==
    IF lo >= hi THEN lo
    ELSE LET mid == (lo + hi + 1) \div 2
         IN  IF mid * mid <= v THEN ISqrt(v, mid, hi) ELSE ISqrt(v, lo, mid - 1)

\* sqrt(a)
Sqrt(a) == IF a <= 0 THEN 0 ELSE ISqrt(Clamp(a) * SCALE, 0, 32 * SCALE)

\* pow(x, -sp), sp counted in halves
Pow(x, sp) ==
    IF sp = 0 THEN ONE
    ELSE IF sp = 1 THEN Div(ONE, Sqrt(x))
    ELSE Div(ONE, x)

RECURSIVE SumTo(_, _)
\* f[0] + ... + f[m-1]
SumTo(f, m) == IF m = 0 THEN 0 ELSE SumTo(f, m - 1) + f[m - 1]

Max(a, b) == IF a > b THEN a ELSE b

Zeros(len) == [idx \in 0..(len - 1) |-> 0]
Fill(len, v) == [idx \in 0..(len - 1) |-> v]


\* ------------------------------------------------- pure steps of the code
\* line 131: only the last allocation is tested
OutOfMemory(nb) == "iLPsiLX_" \in nb

\* lines 159-160
EffLap(lp, ep) == IF lp < ep THEN ep ELSE lp

\* lines 162-168: XX[i2] = (1/l) * sum_i1 X[i2 + i1*n]^2
ComputeXX(Xa) ==
    [i2 \in 0..(n - 1) |->
        DivInt(SumTo([i1 \in 0..(l - 1) |-> Mul(Xa[i2 + i1 * n], Xa[i2 + i1 * n])], l), l)]

\* the loop of line 173 run once too often
LoopCondOffByOne(it, cy) == it <= cy + 1

\* line 173
LoopCond(it, cy) == it <= cy

\* lines 178 / 313: LPsi[i2*k + i1] = L[i2 + i1*n] / Psi[i2]
ComputeLPsi(La, Psia) ==
    [idx \in 0..(k * n - 1) |-> Div(La[(idx \div k) + (idx % k) * n], Psia[idx \div k])]

\* lines 176-179 / 311-314: LPsiL[i1] = sum_i2 L[i2 + i1*n] * LPsi[i2*k + i1]
ComputeLPsiL(La, LPsia) ==
    [i1 \in 0..(k - 1) |->
        SumTo([i2 \in 0..(n - 1) |-> Mul(La[i2 + i1 * n], LPsia[i2 * k + i1])], n)]

\* lines 185-189 with eps on the diagonal of every thread's block
InitSum2EveryBlock(ep, nt) ==
    [idx \in 0..(nt * k * k - 1) |->
        IF (idx % (k * k)) \div k = idx % k THEN ep ELSE 0]

\* lines 185-189: all blocks zero, eps on the diagonal of block 0
InitSum2(ep, nt) ==
    [idx \in 0..(nt * k * k - 1) |->
        IF idx < k * k /\ idx \div k = idx % k THEN ep ELSE 0]

\* lines 195-198: the blocks of thread tid
OffK(tid) == tid * k
\* the stride of a k-block used for an n*k-block
OffNKWrongStride(tid) == tid * k
OffNK(tid) == tid * n * k
OffKK(tid) == tid * k * k

\* column j of X (X + n*j), of Z and lapla (Z + j*k, lapla + j*k)
ColX(Xa, j) == [i1 \in 0..(n - 1) |-> Xa[n * j + i1]]
ColK(a, j) == [i1 \in 0..(k - 1) |-> a[j * k + i1]]

\* line 67
KerneliLPsiL(LPsiLa, lapcol) ==
    [i1 \in 0..(k - 1) |-> Div(ONE, LPsiLa[i1] + lapcol[i1] + MACHINE_EPS)]

\* line 73
KerneliLPsiLX(LPsia, il) ==
    [idx \in 0..(n * k - 1) |-> Mul(LPsia[idx], il[idx % k])]

\* lines 68, 74
KernelZ(ilx, x) ==
    [j1 \in 0..(k - 1) |-> SumTo([i1 \in 0..(n - 1) |-> Mul(ilx[i1 * k + j1], x[i1])], n)]

\* line 78
Accumulating(sum1IsNull, sum2IsNull) == ~(sum1IsNull \/ sum2IsNull)

\* line 81: sger, A[i + j*n] += x[i]*z[j]
Ger(x, z, s1) == [idx \in 0..(n * k - 1) |-> s1[idx] + Mul(x[idx % n], z[idx \div n])]

\* lines 83-87
Sum2Acc(s2, z, il) ==
    [idx \in 0..(k * k - 1) |->
        s2[idx] + Mul(z[idx \div k], z[idx % k])
                + (IF idx \div k = idx % k THEN il[idx \div k] ELSE 0)]

\* line 88
SecondMoment(il, z) == [i1 \in 0..(k - 1) |-> il[i1] + Mul(z[i1], z[i1])]

\* lines 90-91
NewLapla(m2, sz, lp) ==
    LET s == Pow(MACHINE_EPS + m2, sz) IN IF s < lp THEN lp ELSE s

\* lines 205-211: element idx of block 0 gathers the other blocks
ReduceElem(a, idx, len, nt) ==
    a[idx] + SumTo([tid \in 0..(nt - 1) |-> IF tid = 0 THEN 0 ELSE a[idx + tid * len]], nt)

\* the elements a static schedule gives to thread tid out of 0..len-1
Chunk(tid, len, nt) ==
    LET cs == (len + nt - 1) \div nt
    IN  {idx \in 0..(len - 1) : idx \div cs = tid}

\* Gauss-Jordan elimination of [A | I], row-major with 2*kk columns
RECURSIVE GaussJordan(_, _, _)
GaussJordan(aug, p, kk) ==
    IF p = kk THEN [ok |-> TRUE, m |-> aug]
    ELSE LET w == 2 * kk
             piv == aug[p * w + p]
         IN  IF piv <= 0 THEN [ok |-> FALSE, m |-> aug]
             ELSE LET rowp == [c \in 0..(w - 1) |-> Div(aug[p * w + c], piv)]
                      nxt == [idx \in 0..(kk * w - 1) |->
                                 IF idx \div w = p THEN rowp[idx % w]
                                 ELSE aug[idx] - Mul(aug[(idx \div w) * w + p], rowp[idx % w])]
                  IN  GaussJordan(nxt, p + 1, kk)

\* lines 28-41: potrf/potri on the lower triangle, then mirror it upward.
\* ok is FALSE when a pivot is not positive (info != 0, the assert fails).
invertCholesky(a, kk) ==
    LET w == 2 * kk
        Low(r, c) == IF r >= c THEN a[r + c * kk] ELSE a[c + r * kk]
        aug == [idx \in 0..(kk * w - 1) |->
                   IF idx % w < kk THEN Low(idx \div w, idx % w)
                   ELSE IF (idx % w) - kk = idx \div w THEN ONE ELSE 0]
        res == GaussJordan(aug, 0, kk)
        Inv(r, c) == res.m[r * w + kk + c]
    IN  [ok |-> res.ok,
         a  |-> [idx \in 0..(kk * kk - 1) |->
                    IF idx % kk >= idx \div kk
                    THEN Inv(idx % kk, idx \div kk)
                    ELSE Inv(idx \div kk, idx % kk)]]

\* line 216: L = sum1 * sll, both column-major
Gemm(s1, sll) ==
    [idx \in 0..(n * k - 1) |->
        SumTo([p \in 0..(k - 1) |-> Mul(s1[(idx % n) + p * n], sll[p + (idx \div n) * k])], k)]

\* line 224
Threshold(s, psi, al, sl) == Abs(Mul(Mul(psi, al), Pow(MACHINE_EPS + Abs(s), sl)))

\* lines 221-230 without the branch that sets small entries to zero
ShrinkUnclamped(s, psi, al, sl) == s - Sgn(s) * Threshold(s, psi, al, sl)

\* lines 221-230
Shrink(s, psi, al, sl) ==
    IF non_negative <= 0 \/ Sgn(s) > 0
    THEN IF Abs(s) > Threshold(s, psi, al, sl)
         THEN s - Sgn(s) * Threshold(s, psi, al, sl)
         ELSE 0
    ELSE 0

\* lines 219-232
ShrinkAll(La, Psia, al, sl) ==
    [idx \in 0..(n * k - 1) |-> Shrink(La[idx], Psia[idx % n], al, sl)]

\* lines 240-243
PsiS(La, s1, i1) == SumTo([i2 \in 0..(k - 1) |-> Mul(La[i1 + i2 * n], s1[i1 + i2 * n])], k)

RECURSIVE MaxAbsTo(_, _)
\* lines 238, 244-245: t = max(0, |f[0]|, ..., |f[m-1]|)
MaxAbsTo(f, m) == IF m = 0 THEN 0 ELSE Max(MaxAbsTo(f, m - 1), Abs(f[m - 1]))

\* lines 246-249 with the floor tested against 0
NewPsiFloorAtZero(xx, s, ep) ==
    LET p == xx - DivInt(s, l) IN IF p < 0 THEN ep ELSE p

\* lines 246-249
NewPsi(xx, s, ep) ==
    LET p == xx - DivInt(s, l) IN IF p < ep THEN ep ELSE p

\* line 251 with the update tested against MACHINE_EPS
CollapsedBelowMachineEps(tt, ep) == tt < MACHINE_EPS

\* line 251
Collapsed(tt, ep) == tt < ep

\* lines 265-269
ScaleFactor(La, i1) ==
    LET ss == SumTo([j1 \in 0..(n - 1) |-> Mul(La[i1 * n + j1], La[i1 * n + j1])], n)
    IN  Div(ONE, Sqrt(DivInt(ss, n)) + MACHINE_EPS)

\* lines 270-272
RescaleL(La) == [idx \in 0..(n * k - 1) |-> Mul(La[idx], ScaleFactor(La, idx \div n))]

\* lines 273-276
RescaleLapla(lapa, La, sz) ==
    [idx \in 0..(k * l - 1) |->
        Mul(lapa[idx], Pow(Mul(ScaleFactor(La, idx % k), ScaleFactor(La, idx % k)), sz))]

\* lines 283-289 walking row i of L instead of column i
IsZeroColTransposed(La, i1) == \A j1 \in 0..(k - 1) : La[i1 + j1 * n] = 0

\* lines 283-289
IsZeroCol(La, i1) == \A j1 \in 0..(n - 1) : La[j1 + i1 * n] = 0

\* line 302
CallsUI(vb, it) == vb /= 0 /\ it % vb = 0

\* line 309
RunsFinalPass(tt, ep) == tt >= ep


\* ------------------------------------------------------------------ state
VARIABLES
    arg,        \* the call's scalar arguments: cyc, alpha, eps, spl, spz, scale, lap, verbose, nthreads
    X, Psi, L, Z, lapla,    \* the caller's arrays
    lap,        \* the argument lap, overwritten at line 160
    nullbufs,   \* the scratch buffers whose malloc returned NULL
    XX, LPsi, LPsiL, sum1_, sum2_, iLPsiL_, iLPsiLX_,   \* scratch
    t, iter,    \* locals of approx_fabia_cm_f
    pc,         \* position of the calling thread
    todo,       \* samples of the running parallel-for no thread has taken yet
    cur,        \* cur[tid]: the sample thread tid is working on, -1 when it has none
    red,        \* threads that have finished their share of the running reduction
    hist        \* history of the run, written only, for stating properties

vars == <<arg, X, Psi, L, Z, lapla, lap, nullbufs, XX, LPsi, LPsiL, sum1_, sum2_,
          iLPsiL_, iLPsiLX_, t, iter, pc, todo, cur, red, hist>>

arrays == <<X, Psi, L, Z, lapla>>
scratch == <<XX, LPsi, LPsiL, sum1_, sum2_, iLPsiL_, iLPsiLX_>>
par == <<todo, cur, red>>

Buffers == {"sum1_", "sum2_", "XX", "LPsi", "LPsiL", "iLPsiL_", "iLPsiLX_"}
Threads == 0..(arg.nthreads - 1)
Samples == 0..(l - 1)

\* what malloc'ed memory holds before it is written
Uninit == -(MAXV + 1)

\* ----------------------------------------------------------------- inputs
\* X: all zero; rank one, u v^T; rank one and faint; near diagonal
XPattern(p) ==
    [idx \in 0..(n * l - 1) |->
        IF p = 0 THEN 0
        ELSE IF p = 1
             THEN (((idx % n) + 1) * (IF (idx \div n) % 2 = 0 THEN ONE ELSE -ONE)) \div 2
        ELSE IF p = 2
             THEN (((idx % n) + 1) * (IF (idx \div n) % 2 = 0 THEN ONE ELSE -ONE)) \div 6
        ELSE IF idx % n = (idx \div n) % n THEN 2 * ONE ELSE ONE \div 4]

\* L: all ones; column 0 dead
LPattern(p) ==
    [idx \in 0..(n * k - 1) |->
        IF p = 0 THEN ONE
        ELSE IF idx \div n = 0 THEN 0
             ELSE ONE]

\* The calls explored.  The cadence of the UI callback and the floor lap are
\* varied together, to keep the set of calls small.
Args ==
    {a \in [cyc : 0..MaxCyc, alpha : {ONE \div 8, 16 * ONE}, eps : {ONE \div 16},
            spl : {1}, spz : {1}, scale : {0, 1}, lap : {1, 2 * ONE},
            verbose : {0, 1}, nthreads : 1..MaxThreads] :
        (a.verbose = 1) <=> (a.lap = 1)}

\* the calls explored with failing allocations
FewArgs == {a \in Args : a.alpha = ONE \div 8 /\ a.scale = 0 /\ a.verbose = 0}

Init ==
    /\ \/ arg \in Args /\ nullbufs = {}
       \/ arg \in FewArgs /\ nullbufs \in (SUBSET Buffers) \ {{}}
    /\ X \in {XPattern(p) : p \in 0..3}
    /\ L \in {LPattern(p) : p \in 0..1}
    /\ Psi = Fill(n, ONE \div 8)
    /\ Z = Fill(k * l, ONE)
    /\ lapla = Fill(k * l, ONE)
    /\ lap = arg.lap
    /\ XX = Fill(n, Uninit)
    /\ LPsi = Fill(k * n, Uninit)
    /\ LPsiL = Fill(k, Uninit)
    /\ sum1_ = Fill(arg.nthreads * n * k, Uninit)
    /\ sum2_ = Fill(arg.nthreads * k * k, Uninit)
    /\ iLPsiL_ = Fill(arg.nthreads * k, Uninit)
    /\ iLPsiLX_ = Fill(arg.nthreads * n * k, Uninit)
    /\ t = 0
    /\ iter = 0
    /\ pc = "alloc"
    /\ todo = {}
    /\ cur = [tid \in Threads |-> -1]
    /\ red = {}
    /\ hist = [in0 |-> [Psi |-> Psi, L |-> L, Z |-> Z, lapla |-> lapla],
               collapseIter |-> 0, scaleIter |-> 0, uiIter |-> 0, resetLog |-> <<>>,
               resetCols |-> {}, msteps |-> 0, allShrunk |-> 0,
               finalRan |-> FALSE, finalTasks |-> {}, zeroedZ |-> FALSE,
               laplaPre |-> lapla, touchedNull |-> FALSE]

\* ---------------------------------------------------------------- actions
\* lines 119-142
Alloc ==
    /\ pc = "alloc"
    /\ IF OutOfMemory(nullbufs)
       THEN /\ L' = Zeros(n * k)
            /\ Z' = Zeros(k * l)
            /\ pc' = "done"
       ELSE /\ pc' = "init"
            /\ UNCHANGED <<L, Z>>
    /\ UNCHANGED <<arg, X, Psi, lapla, lap, nullbufs, scratch, t, iter, par, hist>>

\* The next block of code writes through a NULL scratch pointer: undefined
\* behaviour.  The process is killed, or it goes on with L and Z in any state.
NullAccess ==
    /\ \/ pc = "init" /\ {"XX", "iLPsiL_"} \cap nullbufs /= {}
       \/ pc = "prelude" /\ {"LPsi", "LPsiL", "sum1_", "sum2_"} \cap nullbufs /= {}
    /\ hist' = [hist EXCEPT !.touchedNull = TRUE]
    /\ \/ pc' = "crashed" /\ UNCHANGED <<L, Z>>
       \/ /\ pc' = "done"
          /\ L' \in {L, Fill(n * k, Uninit)}
          /\ Z' \in {Z, Fill(k * l, Uninit)}
    /\ UNCHANGED <<arg, X, Psi, lapla, lap, nullbufs, scratch, t, iter, par>>

\* lines 159-172
InitBlock ==
    /\ pc = "init"
    /\ {"XX", "iLPsiL_"} \cap nullbufs = {}
    /\ lap' = EffLap(lap, arg.eps)
    /\ XX' = ComputeXX(X)
    /\ iLPsiL_' = Zeros(arg.nthreads * k)
    /\ t' = 0
    /\ iter' = 1
    /\ pc' = "loop"
    /\ UNCHANGED <<arg, arrays, nullbufs, LPsi, LPsiL, sum1_, sum2_, iLPsiLX_, par, hist>>

\* line 173
LoopHead ==
    /\ pc = "loop"
    /\ pc' = IF LoopCond(iter, arg.cyc) THEN "prelude" ELSE "final"
    /\ UNCHANGED <<arg, arrays, lap, nullbufs, scratch, t, iter, par, hist>>

\* lines 175-193: prelude, then the parallel-for over the samples starts
Prelude ==
    /\ pc = "prelude"
    /\ {"LPsi", "LPsiL", "sum1_", "sum2_"} \cap nullbufs = {}
    /\ LPsi' = ComputeLPsi(L, Psi)
    /\ LPsiL' = ComputeLPsiL(L, LPsi')
    /\ sum1_' = Zeros(arg.nthreads * n * k)
    /\ sum2_' = InitSum2(arg.eps, arg.nthreads)
    /\ todo' = Samples
    /\ pc' = "estep"
    /\ hist' = [hist EXCEPT !.laplaPre = lapla]
    /\ UNCHANGED <<arg, arrays, lap, nullbufs, XX, iLPsiL_, iLPsiLX_, t, iter, cur, red>>

\* the accumulators the running parallel-for hands to the kernel are NULL
\* in the final pass (line 324) and the thread's blocks otherwise (line 199)
NullSums == pc = "festep"

\* lines 194-199 / 320-324, then lines 66-76 of the kernel, for sample j on thread tid
TaskZ(tid, j) ==
    /\ pc \in {"estep", "festep"}
    /\ cur[tid] = -1
    /\ j \in todo
    /\ LET il == KerneliLPsiL(LPsiL, ColK(lapla, j))
           ilx == KerneliLPsiLX(LPsi, il)
           z == KernelZ(ilx, ColX(X, j))
       IN  /\ iLPsiL_' = [idx \in DOMAIN iLPsiL_ |->
                            IF idx - OffK(tid) \in 0..(k - 1) THEN il[idx - OffK(tid)]
                            ELSE iLPsiL_[idx]]
           /\ iLPsiLX_' = [idx \in DOMAIN iLPsiLX_ |->
                            IF idx - OffNK(tid) \in 0..(n * k - 1) THEN ilx[idx - OffNK(tid)]
                            ELSE iLPsiLX_[idx]]
           /\ Z' = [idx \in DOMAIN Z |->
                            IF idx - j * k \in 0..(k - 1) THEN z[idx - j * k] ELSE Z[idx]]
    /\ todo' = todo \ {j}
    /\ cur' = [cur EXCEPT ![tid] = j]
    /\ UNCHANGED <<arg, X, Psi, L, lapla, lap, nullbufs, XX, LPsi, LPsiL, sum1_, sum2_,
                   t, iter, pc, red, hist>>

\* lines 78-92 of the kernel for the sample thread tid is working on
TaskAcc(tid) ==
    /\ pc \in {"estep", "festep"}
    /\ cur[tid] /= -1
    /\ LET j == cur[tid]
           il == [i1 \in 0..(k - 1) |-> iLPsiL_[OffK(tid) + i1]]
           z == ColK(Z, j)
           s1 == [idx \in 0..(n * k - 1) |-> sum1_[OffNK(tid) + idx]]
           s2 == [idx \in 0..(k * k - 1) |-> sum2_[OffKK(tid) + idx]]
           s1n == Ger(ColX(X, j), z, s1)
           s2n == Sum2Acc(s2, z, il)
           m2 == SecondMoment(il, z)
       IN  IF Accumulating(NullSums, NullSums)
           THEN /\ sum1_' = [idx \in DOMAIN sum1_ |->
                               IF idx - OffNK(tid) \in 0..(n * k - 1) THEN s1n[idx - OffNK(tid)]
                               ELSE sum1_[idx]]
                /\ sum2_' = [idx \in DOMAIN sum2_ |->
                               IF idx - OffKK(tid) \in 0..(k * k - 1) THEN s2n[idx - OffKK(tid)]
                               ELSE sum2_[idx]]
                /\ iLPsiL_' = [idx \in DOMAIN iLPsiL_ |->
                               IF idx - OffK(tid) \in 0..(k - 1) THEN m2[idx - OffK(tid)]
                               ELSE iLPsiL_[idx]]
                /\ lapla' = [idx \in DOMAIN lapla |->
                               IF idx - j * k \in 0..(k - 1)
                               THEN NewLapla(m2[idx - j * k], arg.spz, lap)
                               ELSE lapla[idx]]
                /\ hist' = hist
           ELSE /\ UNCHANGED <<sum1_, sum2_, iLPsiL_, lapla>>
                /\ hist' = [hist EXCEPT !.finalTasks = @ \cup {j}]
    /\ cur' = [cur EXCEPT ![tid] = -1]
    /\ UNCHANGED <<arg, X, Psi, L, Z, lap, nullbufs, XX, LPsi, LPsiL, iLPsiLX_,
                   t, iter, pc, todo, red>>

\* every sample has been taken and finished: the barrier that ends a parallel-for
Joined == todo = {} /\ \A tid \in Threads : cur[tid] = -1

\* line 200-201: end of the accumulating parallel-for
EStepJoin ==
    /\ pc = "estep"
    /\ Joined
    /\ pc' = "reduce1"
    /\ red' = {}
    /\ UNCHANGED <<arg, arrays, lap, nullbufs, scratch, t, iter, todo, cur, hist>>

\* lines 204-207: thread tid reduces its share of sum1_; the loop ends at a barrier
Reduce1(tid) ==
    /\ pc = "reduce1"
    /\ tid \notin red
    /\ sum1_' = [idx \in DOMAIN sum1_ |->
                    IF idx \in Chunk(tid, n * k, arg.nthreads)
                    THEN ReduceElem(sum1_, idx, n * k, arg.nthreads)
                    ELSE sum1_[idx]]
    /\ IF red \cup {tid} = Threads
       THEN red' = {} /\ pc' = "reduce2"
       ELSE red' = red \cup {tid} /\ pc' = pc
    /\ UNCHANGED <<arg, arrays, lap, nullbufs, XX, LPsi, LPsiL, sum2_, iLPsiL_, iLPsiLX_,
                   t, iter, todo, cur, hist>>

\* lines 208-211: the same for sum2_
Reduce2(tid) ==
    /\ pc = "reduce2"
    /\ tid \notin red
    /\ sum2_' = [idx \in DOMAIN sum2_ |->
                    IF idx \in Chunk(tid, k * k, arg.nthreads)
                    THEN ReduceElem(sum2_, idx, k * k, arg.nthreads)
                    ELSE sum2_[idx]]
    /\ IF red \cup {tid} = Threads
       THEN red' = {} /\ pc' = "chol"
       ELSE red' = red \cup {tid} /\ pc' = pc
    /\ UNCHANGED <<arg, arrays, lap, nullbufs, XX, LPsi, LPsiL, sum1_, iLPsiL_, iLPsiLX_,
                   t, iter, todo, cur, hist>>

\* lines 213-232: inverse, L <- sum1 * sll, shrinkage
MStepL ==
    /\ pc = "chol"
    /\ LET inv == invertCholesky([idx \in 0..(k * k - 1) |-> sum2_[idx]], k)
           Lnew == Gemm(sum1_, inv.a)
       IN  IF inv.ok
           THEN /\ sum2_' = [idx \in DOMAIN sum2_ |->
                                IF idx < k * k THEN inv.a[idx] ELSE sum2_[idx]]
                /\ L' = ShrinkAll(Lnew, Psi, arg.alpha, arg.spl)
                /\ pc' = "psi"
                /\ hist' = [hist EXCEPT !.allShrunk =
                              IF \A idx \in 0..(n * k - 1) :
                                    Threshold(Lnew[idx], Psi[idx % n], arg.alpha, arg.spl)
                                        > Abs(Lnew[idx])
                              THEN iter ELSE @]
           ELSE /\ pc' = "aborted"
                /\ UNCHANGED <<sum2_, L, hist>>
    /\ UNCHANGED <<arg, X, Psi, Z, lapla, lap, nullbufs, XX, LPsi, LPsiL, sum1_,
                   iLPsiL_, iLPsiLX_, t, iter, par>>

\* lines 238-250
PsiUpdate ==
    /\ pc = "psi"
    /\ LET s == [i1 \in 0..(n - 1) |-> PsiS(L, sum1_, i1)]
       IN  /\ t' = MaxAbsTo(s, n)
           /\ Psi' = [i1 \in 0..(n - 1) |-> NewPsi(XX[i1], s[i1], arg.eps)]
           /\ hist' = [hist EXCEPT !.msteps = @ + 1,
                                   !.collapseIter = IF MaxAbsTo(s, n) < arg.eps THEN iter ELSE @]
    /\ pc' = "check"
    /\ UNCHANGED <<arg, X, L, Z, lapla, lap, nullbufs, scratch, iter, par>>

\* lines 251-261
CollapseCheck ==
    /\ pc = "check"
    /\ IF Collapsed(t, arg.eps)
       THEN /\ Psi' = Fill(n, arg.eps)
            /\ lapla' = Fill(k * l, arg.eps)
            /\ pc' = "final"
       ELSE /\ pc' = "scale"
            /\ UNCHANGED <<Psi, lapla>>
    /\ UNCHANGED <<arg, X, L, Z, lap, nullbufs, scratch, t, iter, par, hist>>

\* lines 263-278
Rescale ==
    /\ pc = "scale"
    /\ IF arg.scale /= 0
       THEN /\ L' = RescaleL(L)
            /\ lapla' = RescaleLapla(lapla, L, arg.spz)
       ELSE UNCHANGED <<L, lapla>>
    /\ pc' = "reset"
    /\ hist' = [hist EXCEPT !.scaleIter = iter]
    /\ UNCHANGED <<arg, X, Psi, Z, lap, nullbufs, scratch, t, iter, par>>

\* rand_normal(): a draw from the standard normal
RandNormal == {-ONE, ONE \div 2}

\* lines 280-300
Reset ==
    /\ pc = "reset"
    /\ LET dead == {i1 \in 0..(k - 1) : IsZeroCol(L, i1)}
       IN  /\ \E r \in [{idx \in 0..(n * k - 1) : idx \div n \in dead} -> RandNormal] :
                L' = [idx \in 0..(n * k - 1) |->
                        IF idx \div n \in dead THEN r[idx] ELSE L[idx]]
           /\ lapla' = [idx \in 0..(k * l - 1) |->
                          IF idx % k \in dead THEN ONE ELSE lapla[idx]]
           /\ hist' = [hist EXCEPT !.resetLog = Append(@, Cardinality(dead)),
                                   !.resetCols = dead]
    /\ pc' = "ui"
    /\ UNCHANGED <<arg, X, Psi, Z, lap, nullbufs, scratch, t, iter, par>>

\* lines 302-306 and ++iter
UpdateUI ==
    /\ pc = "ui"
    /\ hist' = [hist EXCEPT !.uiIter = IF CallsUI(arg.verbose, iter) THEN iter ELSE @]
    /\ iter' = iter + 1
    /\ pc' = "loop"
    /\ UNCHANGED <<arg, arrays, lap, nullbufs, scratch, t, par>>

\* lines 308-319 and 327-328
Final ==
    /\ pc = "final"
    /\ IF RunsFinalPass(t, arg.eps)
       THEN /\ LPsi' = ComputeLPsi(L, Psi)
            /\ LPsiL' = ComputeLPsiL(L, LPsi')
            /\ todo' = Samples
            /\ pc' = "festep"
            /\ hist' = [hist EXCEPT !.finalRan = TRUE]
            /\ Z' = Z
       ELSE /\ Z' = Zeros(k * l)
            /\ pc' = "done"
            /\ hist' = [hist EXCEPT !.zeroedZ = TRUE]
            /\ UNCHANGED <<LPsi, LPsiL, todo>>
    /\ UNCHANGED <<arg, X, Psi, L, lapla, lap, nullbufs, XX, sum1_, sum2_, iLPsiL_, iLPsiLX_,
                   t, iter, cur, red>>

\* lines 325-344: end of the final parallel-for, free, return
FinalJoin ==
    /\ pc = "festep"
    /\ Joined
    /\ pc' = "done"
    /\ UNCHANGED <<arg, arrays, lap, nullbufs, scratch, t, iter, par, hist>>

Next ==
    \/ Alloc
    \/ NullAccess
    \/ InitBlock
    \/ LoopHead
    \/ Prelude
    \/ \E tid \in Threads : \E j \in Samples : TaskZ(tid, j)
    \/ \E tid \in Threads : TaskAcc(tid)
    \/ EStepJoin
    \/ \E tid \in Threads : Reduce1(tid)
    \/ \E tid \in Threads : Reduce2(tid)
    \/ MStepL
    \/ PsiUpdate
    \/ CollapseCheck
    \/ Rescale
    \/ Reset
    \/ UpdateUI
    \/ Final
    \/ FinalJoin

Spec == Init /\ [][Next]_vars


\* ------------------------------------------------- memory touched by a task
\* The locations the kernel call of lines 199 / 324 writes for sample j on
\* thread tid (lines 67-68, 73-74, 81-91); acc: the accumulators are not NULL.
TaskWrites(tid, j, acc) ==
    {<<"iLPsiL_", OffK(tid) + i1>> : i1 \in 0..(k - 1)}
    \cup {<<"iLPsiLX_", OffNK(tid) + idx>> : idx \in 0..(n * k - 1)}
    \cup {<<"Z", j * k + i1>> : i1 \in 0..(k - 1)}
    \cup (IF acc
          THEN {<<"sum1_", OffNK(tid) + idx>> : idx \in 0..(n * k - 1)}
               \cup {<<"sum2_", OffKK(tid) + idx>> : idx \in 0..(k * k - 1)}
               \cup {<<"lapla", j * k + i1>> : i1 \in 0..(k - 1)}
          ELSE {})

\* The locations that call reads.
TaskReads(tid, j, acc) ==
    {<<"LPsiL", i1>> : i1 \in 0..(k - 1)}
    \cup {<<"LPsi", idx>> : idx \in 0..(n * k - 1)}
    \cup {<<"lapla", j * k + i1>> : i1 \in 0..(k - 1)}
    \cup {<<"X", n * j + i1>> : i1 \in 0..(n - 1)}
    \cup {<<"iLPsiL_", OffK(tid) + i1>> : i1 \in 0..(k - 1)}
    \cup {<<"iLPsiLX_", OffNK(tid) + idx>> : idx \in 0..(n * k - 1)}
    \cup {<<"Z", j * k + i1>> : i1 \in 0..(k - 1)}
    \cup (IF acc
          THEN {<<"sum1_", OffNK(tid) + idx>> : idx \in 0..(n * k - 1)}
               \cup {<<"sum2_", OffKK(tid) + idx>> : idx \in 0..(k * k - 1)}
          ELSE {})


\* ------------------------------------------------------------- properties
NoZeroCol == \A i1 \in 0..(k - 1) : \E j1 \in 0..(n - 1) : L[j1 + i1 * n] /= 0

\* C1: if any of the seven scratch allocations fails, the function zeroes L
\* and Z and returns: no EM iteration, no final pass, Psi and lapla as
\* passed, nothing read or written through a NULL buffer.
C1_AnyFailedAllocationReturnsZeroed ==
    nullbufs /= {} =>
        /\ pc \in {"alloc", "done"}
        /\ ~hist.touchedNull
        /\ pc = "done" =>
              /\ L = Zeros(n * k)
              /\ Z = Zeros(k * l)
              /\ Psi = hist.in0.Psi
              /\ lapla = hist.in0.lapla
              /\ iter = 0
              /\ hist.msteps = 0
              /\ ~hist.finalRan

\* C2: when the Psi update of an iteration ends with t < eps, the loop ends
\* in that iteration (no rescale, reset, UI callback or further iteration)
\* and on return Psi = eps, lapla = eps and Z = 0 everywhere.
C2_CollapseEndsLoop ==
    hist.collapseIter /= 0 =>
        /\ iter = hist.collapseIter
        /\ pc \in {"check", "final", "done"}
        /\ hist.scaleIter < hist.collapseIter
        /\ Len(hist.resetLog) < hist.collapseIter
        /\ hist.uiIter < hist.collapseIter
        /\ ~hist.finalRan
        /\ pc = "done" =>
              /\ Psi = Fill(n, arg.eps)
              /\ lapla = Fill(k * l, arg.eps)
              /\ Z = Zeros(k * l)

C2_Witness == pc = "done" /\ hist.collapseIter = 2 /\ arg.nthreads = 2

C4_FinalPassUnlessCollapse ==
    (nullbufs = {} /\ pc = "done") =>
        IF hist.collapseIter = 0
        THEN hist.finalRan /\ hist.finalTasks = Samples /\ ~hist.zeroedZ
        ELSE hist.zeroedZ /\ ~hist.finalRan

\* C5: at the end of every iteration that does not collapse, every entry of
\* lapla is at least max(lap, eps).
C5_LaplaFloorAfterIteration ==
    (pc = "loop" /\ iter > 1) =>
        \A idx \in DOMAIN lapla : lapla[idx] >= Max(arg.lap, arg.eps)

\* an iteration is over: its reset step is behind, or the loop was left
IterationOver(it) == it /= 0 /\ (iter > it \/ pc \in {"ui", "final", "festep", "done"})

\* C6 as stated: when the threshold exceeds every entry of the new L, the
\* reset fires on every one of the k factors in that iteration and no
\* column of L is zero when the iteration ends.
C6_AllShrunkResetsEveryFactor ==
    IterationOver(hist.allShrunk) =>
        /\ Len(hist.resetLog) >= hist.allShrunk
        /\ hist.resetLog[hist.allShrunk] = k
        /\ (pc = "ui" /\ iter = hist.allShrunk) => NoZeroCol

\* C6 amended: when the threshold exceeds every entry of the new L, the
\* M-step leaves L all zeros, the Psi update gives t = 0 < eps, the loop
\* takes the collapse exit in that iteration, the reset does not run and L
\* is all zeros on return.
C6_AllShrunkCollapses ==
    hist.allShrunk /= 0 =>
        /\ iter = hist.allShrunk
        /\ pc \in {"psi", "check", "final", "done"}
        /\ L = Zeros(n * k)
        /\ Len(hist.resetLog) < hist.allShrunk
        /\ pc /= "psi" => (t = 0 /\ hist.collapseIter = hist.allShrunk)

C6_Witness == pc = "done" /\ hist.allShrunk /= 0 /\ hist.in0.L /= Zeros(n * k)

\* the caller's L is as the last finished iteration left it
AfterIteration ==
    hist.msteps >= 1 /\ pc \in {"ui", "loop", "prelude", "estep", "reduce1", "reduce2",
                                "chol", "final", "festep", "done"}

\* C7 as stated: after the M-step of every iteration the dead-component check
\* has been applied, no column of L is zero then nor on return after
\* cyc >= 1 iterations, and every reset factor has its lapla row equal to 1.
C7_NoZeroColumnAfterMStep ==
    /\ AfterIteration => (NoZeroCol /\ Len(hist.resetLog) = hist.msteps)
    /\ pc = "ui" => \A i1 \in hist.resetCols : \A j \in Samples : lapla[j * k + i1] = ONE

\* C7 amended: the same, for the iterations that do not take the collapse
\* exit and for a return after iterations none of which collapsed.
C7_NoZeroColumnUnlessCollapse ==
    /\ (AfterIteration /\ hist.collapseIter = 0) =>
            (NoZeroCol /\ Len(hist.resetLog) = hist.msteps)
    /\ (AfterIteration /\ hist.collapseIter /= 0) =>
            Len(hist.resetLog) = hist.msteps - 1
    /\ pc = "ui" => \A i1 \in hist.resetCols : \A j \in Samples : lapla[j * k + i1] = ONE

C7_Witness == pc = "ui" /\ hist.resetCols /= {} /\ hist.resetCols /= 0..(k - 1)

\* C8: after the Psi update of any M-step every Psi[i] is at least eps, up
\* to and including every later prelude.
C8_PsiAtLeastEps ==
    hist.msteps >= 1 => \A i1 \in 0..(n - 1) : Psi[i1] >= arg.eps

C8_Witness ==
    /\ pc = "prelude" /\ iter = 2
    /\ \E i1 \in 0..(n - 1) : Psi[i1] = arg.eps
    /\ \E i1 \in 0..(n - 1) : Psi[i1] > arg.eps

\* the tasks in flight on two different threads do not touch a common
\* location that one of them writes
NoHazard ==
    \A t1 \in Threads : \A t2 \in Threads \ {t1} :
        (cur[t1] /= -1 /\ cur[t2] /= -1) =>
            TaskWrites(t1, cur[t1], ~NullSums)
                \cap (TaskReads(t2, cur[t2], ~NullSums) \cup TaskWrites(t2, cur[t2], ~NullSums))
              = {}

\* the locations a step changes
Changed ==
    {<<"X", idx>> : idx \in {i1 \in DOMAIN X : X'[i1] /= X[i1]}}
    \cup {<<"Psi", idx>> : idx \in {i1 \in DOMAIN Psi : Psi'[i1] /= Psi[i1]}}
    \cup {<<"L", idx>> : idx \in {i1 \in DOMAIN L : L'[i1] /= L[i1]}}
    \cup {<<"LPsi", idx>> : idx \in {i1 \in DOMAIN LPsi : LPsi'[i1] /= LPsi[i1]}}
    \cup {<<"LPsiL", idx>> : idx \in {i1 \in DOMAIN LPsiL : LPsiL'[i1] /= LPsiL[i1]}}
    \cup {<<"Z", idx>> : idx \in {i1 \in DOMAIN Z : Z'[i1] /= Z[i1]}}
    \cup {<<"lapla", idx>> : idx \in {i1 \in DOMAIN lapla : lapla'[i1] /= lapla[i1]}}
    \cup {<<"sum1_", idx>> : idx \in {i1 \in DOMAIN sum1_ : sum1_'[i1] /= sum1_[i1]}}
    \cup {<<"sum2_", idx>> : idx \in {i1 \in DOMAIN sum2_ : sum2_'[i1] /= sum2_[i1]}}
    \cup {<<"iLPsiL_", idx>> : idx \in {i1 \in DOMAIN iLPsiL_ : iLPsiL_'[i1] /= iLPsiL_[i1]}}
    \cup {<<"iLPsiLX_", idx>> : idx \in {i1 \in DOMAIN iLPsiLX_ : iLPsiLX_'[i1] /= iLPsiLX_[i1]}}

\* the blocks of the per-thread buffers that belong to thread tid
OwnBlocks(tid) ==
    {<<"sum1_", idx>> : idx \in (tid * n * k)..((tid + 1) * n * k - 1)}
    \cup {<<"sum2_", idx>> : idx \in (tid * k * k)..((tid + 1) * k * k - 1)}
    \cup {<<"iLPsiL_", idx>> : idx \in (tid * k)..((tid + 1) * k - 1)}
    \cup {<<"iLPsiLX_", idx>> : idx \in (tid * n * k)..((tid + 1) * n * k - 1)}

\* C9: in both parallel E-steps, under every assignment of samples to
\* threads and every interleaving, a step of a task changes only column j of
\* Z and lapla and the blocks of its own thread, never X, Psi, L, LPsi or
\* LPsiL, and tasks in flight on different threads share no location that one
\* of them writes.
C9_NoCrossThreadHazard ==
    [][(pc \in {"estep", "festep"} /\ pc' = pc) =>
          /\ NoHazard'
          /\ \A tid \in Threads :
                cur'[tid] /= cur[tid] =>
                   LET j == IF cur[tid] = -1 THEN cur'[tid] ELSE cur[tid]
                   IN  /\ Changed \subseteq TaskWrites(tid, j, ~NullSums)
                       /\ TaskWrites(tid, j, ~NullSums) \subseteq
                             OwnBlocks(tid)
                             \cup {<<"Z", j * k + i1>> : i1 \in 0..(k - 1)}
                             \cup {<<"lapla", j * k + i1>> : i1 \in 0..(k - 1)}]_vars

C9_Witness ==
    /\ pc = "estep"
    /\ \E t1 \in Threads : \E t2 \in Threads \ {t1} : cur[t1] /= -1 /\ cur[t2] /= -1

\* C10: when the inverse starts, block 0 of sum1_ is the sum over all samples
\* of x_j z_j^T and block 0 of sum2_ is eps*I plus the sum over all samples
\* of z_j z_j^T + diag(iLPsiL_j), whatever thread ran which sample.
C10_ReducedSums ==
    pc = "chol" =>
        /\ \A idx \in 0..(n * k - 1) :
              sum1_[idx] =
                 SumTo([j \in Samples |-> Mul(X[n * j + (idx % n)], Z[j * k + (idx \div n)])], l)
        /\ \A idx \in 0..(k * k - 1) :
              sum2_[idx] =
                 (IF idx \div k = idx % k THEN arg.eps ELSE 0)
                 + SumTo([j \in Samples |->
                            Mul(Z[j * k + (idx \div k)], Z[j * k + (idx % k)])
                            + (IF idx \div k = idx % k
                               THEN Div(ONE, LPsiL[idx % k] + hist.laplaPre[j * k + (idx % k)]
                                                 + MACHINE_EPS)
                               ELSE 0)], l)

C10_Witness ==
    /\ pc = "chol" /\ iter = 2 /\ arg.nthreads = 2
    /\ \E idx \in (n * k)..(2 * n * k - 1) : sum1_[idx] /= 0
    /\ \E idx \in 0..(n * k - 1) : sum1_[idx] /= sum1_[idx + n * k] /\ sum1_[idx] /= 0

====
